---- MODULE Spec2Model ----
(***************************************************************************)
(* Model of the graph-sample pipeline of src/datasets.py:                  *)
(*   - threshold_adj_array / create_thresholded_graph (SpecGraph),         *)
(*   - normalise_timeseries (SpecNorm),                                    *)
(*   - HCPDataset / UKBDataset process (Spec),                             *)
(*   - random_downsample (SpecSample),                                     *)
(*   - two graphs built from copies of one matrix (SpecBoth).              *)
(* Matrices are functions over index pairs; numpy's in-place writes are    *)
(* writes to the variable that holds the caller's array object.            *)
(***************************************************************************)
EXTENDS Integers, Sequences, FiniteSets, TLC

VARIABLES
    \* ---- threshold_adj_array / create_thresholded_graph
    gpc,            \* "call" before create_thresholded_graph runs, "done" after
    num_nodes,      \* argument num_nodes
    threshold,      \* argument threshold
    adj_in,         \* value of the matrix at the moment of the call (never written)
    adj_array,      \* the caller's array object, written in place by lines 45 and 50
    sorted_indices, \* local of line 49: argsort(...)[::-1], positions into np.where's list
    thr_array,      \* array returned by threshold_adj_array (new object of line 53)
    G,              \* edge set of the nx.DiGraph returned by create_thresholded_graph
    \* ---- normalise_timeseries
    npc,            \* "call" before normalise_timeseries runs, "done" after
    normalisation,  \* argument normalisation
    ts_in,          \* argument timeseries: [shape, at], time x node
    ts_out,         \* returned array: [shape, at], entries are fractions <<num, den>>
    \* ---- HCPDataset / UKBDataset: constructor and process()
    pc,             \* "init", "process", "loop", "scan", "done", "exit", "aborted"
    cfg,            \* the constructor's arguments
    DESIKAN_COMPLETE_TS, \* subjects that have time series (utils_datasets)
    DESIKAN_TRACKS, \* subjects that have structural tracks (utils_datasets)
    raw,            \* what the files of each subject turned out to hold, once read
    filtered_people,\* local of process(): the subjects to iterate, in order
    person_idx,     \* position of the for loop of line 247 in filtered_people
    ind,            \* position of the for loop of line 275 (scan direction index)
    edge_index,     \* local of process(): the subject whose tracks built the graph
    data_list,      \* local of process(): the samples appended so far
    saved,          \* what torch.save wrote to processed_paths[0], <<>> wrapped
    error,          \* the exception that ended the run, [name, line]
    exit_code,      \* the status exit() ended the run with, 0 if it did not
    \* ---- random_downsample
    spc,            \* "run" while random_downsample is being called
    samples,        \* argument data_list: the samples [id, y], in order
    seed0_choices,  \* what default_rng(seed=0).choice returned, per (a, size)
    calls,          \* per call made so far: numbers_sample and the list returned
    \* ---- two graphs built from copies of one matrix
    bpc,            \* "first", "second", "done" while the two builds run
    b_nodes,        \* num_nodes of both builds
    b_array,        \* the matrix both builds get a copy of
    argsort_seen,   \* what np.argsort returned in this run, per array sorted
    built           \* per build made so far: its threshold and its edge set G

gvars == <<gpc, num_nodes, threshold, adj_in, adj_array, sorted_indices, thr_array, G>>

nvars == <<npc, normalisation, ts_in, ts_out>>

dvars == <<pc, cfg, DESIKAN_COMPLETE_TS, DESIKAN_TRACKS, raw, filtered_people,
           person_idx, ind, edge_index, data_list, saved, error, exit_code>>

svars == <<spc, samples, seed0_choices, calls>>

bvars == <<bpc, b_nodes, b_array, argsort_seen, built>>

vars == <<gvars, nvars, dvars, svars, bvars>>

\* the builder is not part of the run
IdleGraph ==
    /\ gpc = "idle"
    /\ num_nodes = 0
    /\ threshold = 0
    /\ adj_in = <<>>
    /\ adj_array = <<>>
    /\ sorted_indices = <<>>
    /\ thr_array = <<>>
    /\ G = {}

\* the normaliser is not part of the run
IdleNorm ==
    /\ npc = "idle"
    /\ normalisation = "NONE"
    /\ ts_in = <<>>
    /\ ts_out = <<>>

NoError == [name |-> "none", line |-> 0]

\* no dataset is being built
IdleData ==
    /\ pc = "idle"
    /\ cfg = <<>>
    /\ DESIKAN_COMPLETE_TS = {}
    /\ DESIKAN_TRACKS = {}
    /\ raw = <<>>
    /\ filtered_people = <<>>
    /\ person_idx = 0
    /\ ind = 0
    /\ edge_index = 0
    /\ data_list = <<>>
    /\ saved = <<>>
    /\ error = NoError
    /\ exit_code = 0

\* random_downsample is not part of the run
IdleSample ==
    /\ spc = "idle"
    /\ samples = <<>>
    /\ seed0_choices = {}
    /\ calls = <<>>

\* no pair of builds is part of the run
IdleBoth ==
    /\ bpc = "idle"
    /\ b_nodes = 0
    /\ b_array = <<>>
    /\ argsort_seen = {}
    /\ built = <<>>

----------------------------------------------------------------------------
(* Bounds of the model *)

\* largest num_nodes of the enumerated matrices
MaxNodes == 3
\* matrix entries of the enumerated matrices range over 0..MaxVal
MaxVal == 2
\* subject ids range over 1..MaxPeople
MaxPeople == 3
\* longest list handed to random_downsample
MaxSamples == 5
\* number of calls of random_downsample on the same list
MaxCalls == 2

\* thresholds tried: the ones the specification names and the ones next to a
\* change of num_to_filter for small num_nodes
Thresholds == {0, 5, 20, 34, 50, 67, 100}

----------------------------------------------------------------------------
(* numpy helpers *)

Idx(n) == 0..(n - 1)

\* np.tril_indices(n): lower triangle including the diagonal
tril_indices(n) == {p \in Idx(n) \X Idx(n) : p[2] <= p[1]}

\* np.triu_indices(n, k=1): strict upper triangle
triu_indices(n) == {p \in Idx(n) \X Idx(n) : p[1] < p[2]}

\* np.diag_indices(n)
diag_indices(n) == {p \in Idx(n) \X Idx(n) : p[1] = p[2]}

\* Python int(): truncation toward zero of a / b, b > 0
IntTrunc(a, b) == IF a >= 0 THEN a \div b ELSE -((-a) \div b)

\* line 42: int((threshold / 100.0) * (num_nodes * (num_nodes - 1) / 2)).
\* num_nodes * (num_nodes - 1) is even, so the inner division is exact; the
\* float product equals the exact one for every num_nodes below 25.
\* (variant that rounds up instead of truncating)
NumToFilterCeil(t, n) == (t * ((n * (n - 1)) \div 2) + 99) \div 100
NumToFilter(t, n) == IntTrunc(t * ((n * (n - 1)) \div 2), 100)

\* the positions of a Python slice s[k:] of a sequence of length len
SliceFrom(k, len) ==
    LET start == IF k >= 0 THEN (IF k > len THEN len ELSE k)
                 ELSE (IF len + k < 0 THEN 0 ELSE len + k)
    IN (start + 1)..len

\* all index pairs of an n x n array in C (row-major) order
RowMajor(n) == [k \in 1..(n * n) |-> <<(k - 1) \div n, (k - 1) % n>>]

IsNonZero(A, p) == A[p] # 0

\* np.where(A): the index pairs of the nonzero entries, in row-major order
Where(A, n) == SelectSeq(RowMajor(n), LAMBDA p : IsNonZero(A, p))

RECURSIVE AscendingOrders(_, _)
\* every order of the positions `rest` of `vals` that is ascending in value
AscendingOrders(vals, rest) ==
    IF rest = {} THEN {<<>>}
    ELSE UNION { { <<i>> \o s : s \in AscendingOrders(vals, rest \ {i}) } :
                 i \in {j \in rest : \A m \in rest : vals[j] <= vals[m]} }

\* np.argsort(vals) with the default kind (quicksort, not stable): the order
\* among equal values is left to the build, so every ascending order is possible
Argsort(vals) == AscendingOrders(vals, 1..Len(vals))

\* (variant that sorts anew on every call)
ArgsortAnew(seen, vals) == Argsort(vals)
\* np.argsort within one run: the sort is a fixed algorithm, so an array equal
\* to one sorted before (seen) gets the order it got then
ArgsortSeen(seen, vals) ==
    IF \E m \in seen : m.vals = vals
    THEN {m.order : m \in {c \in seen : c.vals = vals}}
    ELSE Argsort(vals)

\* (variant that leaves the ascending order as it is)
NotReversed(s) == s
\* s[::-1]
Reversed(s) == [k \in 1..Len(s) |-> s[Len(s) + 1 - k]]

----------------------------------------------------------------------------
(* normalise_timeseries *)

NormNone == "NONE"
NormRoi == "ROI"
NormSubject == "SUBJECT"
Normalisations == {NormNone, NormRoi, NormSubject}

\* (time_length, num_nodes) of the blocks tried, time_length > num_nodes
TsShapes == {<<2, 1>>, <<3, 1>>, <<3, 2>>, <<4, 2>>}

\* a 2-D array: its shape and its entries
Array(r, c, f) == [shape |-> <<r, c>>, at |-> [p \in Idx(r) \X Idx(c) |-> f[p]]]

\* (variant that reinterprets the buffer in the new shape instead of transposing)
ReshapedNotTransposed(A) ==
    LET r == A.shape[1]
        c == A.shape[2]
    IN [shape |-> <<c, r>>,
        at |-> [p \in Idx(c) \X Idx(r) |->
                   A.at[<<(p[1] * r + p[2]) \div c, (p[1] * r + p[2]) % c>>]]]
\* A.T
Transpose(A) ==
    [shape |-> <<A.shape[2], A.shape[1]>>,
     at |-> [p \in Idx(A.shape[2]) \X Idx(A.shape[1]) |-> A.at[<<p[2], p[1]>>]]]

\* A.flatten(): the entries in row-major order
Flatten(A) ==
    [k \in 1..(A.shape[1] * A.shape[2]) |->
        A.at[<<(k - 1) \div A.shape[2], (k - 1) % A.shape[2]>>]]

\* s.reshape(r, c) of a flat sequence
Reshape(s, r, c) == [shape |-> <<r, c>>,
                     at |-> [p \in Idx(r) \X Idx(c) |-> s[p[1] * c + p[2] + 1]]]

\* column n of A as a sequence
Column(A, n) == [k \in 1..A.shape[1] |-> A.at[<<k - 1, n>>]]

\* four times the k-th quartile of the values of s, by numpy's linear
\* interpolation between the two nearest order statistics
Quartile4(s, k) ==
    LET sorted == SortSeq(s, LAMBDA a, b : a < b)
        pos4 == k * (Len(s) - 1)
        lo == pos4 \div 4
        r == pos4 % 4
    IN sorted[lo + 1] * (4 - r) + (IF r > 0 THEN sorted[lo + 2] * r ELSE 0)

\* RobustScaler().fit(column): center_ = median, scale_ = q75 - q25, with a
\* zero scale replaced by 1; both kept times 4
RobustFit(s) ==
    LET iqr4 == Quartile4(s, 3) - Quartile4(s, 1)
    IN [center4 |-> Quartile4(s, 2), scale4 |-> IF iqr4 = 0 THEN 4 ELSE iqr4]

\* scaler.transform of one value: (x - center_) / scale_, as a fraction
RobustTransform(fit, x) == <<4 * x - fit.center4, fit.scale4>>

\* normalise_timeseries(timeseries, normalisation), lines 118-134
NormaliseTimeseries(ts, mode) ==
    IF mode = NormRoi THEN
        Transpose([shape |-> ts.shape,
                   at |-> [p \in DOMAIN ts.at |->
                              RobustTransform(RobustFit(Column(ts, p[2])), ts.at[p])]])
    ELSE IF mode = NormSubject THEN
        LET flat == Flatten(ts)
            fit == RobustFit(flat)
            scaled == [k \in 1..Len(flat) |-> RobustTransform(fit, flat[k])]
        IN Transpose(Reshape(scaled, ts.shape[1], ts.shape[2]))
    ELSE
        Transpose([shape |-> ts.shape,
                   at |-> [p \in DOMAIN ts.at |-> <<ts.at[p], 1>>]])

InitNorm ==
    /\ IdleGraph
    /\ IdleData
    /\ IdleSample
    /\ IdleBoth
    /\ npc = "call"
    /\ normalisation \in Normalisations
    /\ \E sh \in TsShapes : \E f \in [Idx(sh[1]) \X Idx(sh[2]) -> 0..MaxVal] :
          ts_in = Array(sh[1], sh[2], f)
    /\ ts_out = <<>>

Normalise ==
    /\ npc = "call"
    /\ ts_out' = NormaliseTimeseries(ts_in, normalisation)
    /\ npc' = "done"
    /\ UNCHANGED <<normalisation, ts_in>>
    /\ UNCHANGED <<gvars, dvars, svars, bvars>>

NextNorm == Normalise

SpecNorm == InitNorm /\ [][NextNorm]_vars

----------------------------------------------------------------------------
(* threshold_adj_array *)

\* line 45: adj_array[np.tril_indices(num_nodes)] = 0
ZeroLower(A, n) == [p \in DOMAIN A |-> IF p \in tril_indices(n) THEN 0 ELSE A[p]]

\* (variant that starts the slice one position late)
DropWeakLate(A, indices, sorted, num_to_filter) ==
    LET dropped == {indices[sorted[m]] : m \in SliceFrom(num_to_filter + 1, Len(sorted))}
    IN [p \in DOMAIN A |-> IF p \in dropped THEN 0 ELSE A[p]]
\* (variant that zeroes every ranked entry but the strongest)
DropWeakAll(A, indices, sorted, num_to_filter) ==
    LET dropped == {indices[sorted[m]] : m \in SliceFrom(1, Len(sorted))}
    IN [p \in DOMAIN A |-> IF p \in dropped THEN 0 ELSE A[p]]
\* line 50: zero the entries ranked from num_to_filter on
DropWeak(A, indices, sorted, num_to_filter) ==
    LET dropped == {indices[sorted[m]] : m \in SliceFrom(num_to_filter, Len(sorted))}
    IN [p \in DOMAIN A |-> IF p \in dropped THEN 0 ELSE A[p]]

\* (variant that forgets the transpose)
NotSymmetrised(A) == A
\* line 53: adj_array + adj_array.T
Symmetrise(A) == [p \in DOMAIN A |-> A[p] + A[<<p[2], p[1]>>]]

\* line 56: adj_array[np.diag_indices(num_nodes)] = 1.0
SetDiagonal(A, n) == [p \in DOMAIN A |-> IF p \in diag_indices(n) THEN 1 ELSE A[p]]

\* nx.from_numpy_array(A, create_using=nx.DiGraph): an edge per nonzero entry
from_numpy_array(A) == {p \in DOMAIN A : A[p] # 0}

\* the values adj_array[indices] that line 49 sorts
ValuesAt(A, indices) == [k \in 1..Len(indices) |-> A[indices[k]]]

----------------------------------------------------------------------------
(* the matrices the builder is called with *)

StrictUpper(n) == triu_indices(n)

\* "upper": structural track counts, values in the upper triangle only;
\* "symmetric": a correlation-like matrix, mirrored with a full diagonal;
\* "filled": lower triangle and diagonal hold a value above every upper one
Kinds == {"upper", "symmetric", "filled"}

MatrixOf(n, up, kind) ==
    [p \in Idx(n) \X Idx(n) |->
        IF p[1] < p[2] THEN up[p]
        ELSE IF kind = "upper" THEN 0
        ELSE IF kind = "filled" THEN MaxVal + 7
        ELSE IF p[1] = p[2] THEN MaxVal
        ELSE up[<<p[2], p[1]>>]]

\* the 4-node matrix of the specification's end-to-end example
ExampleUpper ==
    (<<0, 1>> :> 4) @@ (<<0, 2>> :> 3) @@ (<<0, 3>> :> 1) @@
    (<<1, 2>> :> 2) @@ (<<1, 3>> :> 0) @@ (<<2, 3>> :> 5)

\* threshold_adj_array(adj_array, threshold, num_nodes) in a run that has
\* sorted the arrays of seen before: for every order argsort may return, the
\* caller's array as the in-place writes leave it, the array returned, the
\* ranking used, and the array sorted with the order argsort gave it
ThresholdAdjArraySeen(A, t, n, seen) ==
    LET num_to_filter == NumToFilter(t, n)
        a1 == ZeroLower(A, n)
        indices == Where(a1, n)
        vals == ValuesAt(a1, indices)
    IN { LET sorted == Reversed(order)
             a2 == DropWeak(a1, indices, sorted, num_to_filter)
         IN [caller |-> a2,
             result |-> SetDiagonal(Symmetrise(a2), n),
             sorted |-> sorted,
             vals |-> vals,
             order |-> order] : order \in ArgsortSeen(seen, vals) }

\* threshold_adj_array(adj_array, threshold, num_nodes) as the first sort of a run
ThresholdAdjArray(A, t, n) == ThresholdAdjArraySeen(A, t, n, {})

InitGraph ==
    /\ IdleNorm
    /\ IdleData
    /\ IdleSample
    /\ IdleBoth
    /\ gpc = "call"
    /\ \E kind \in Kinds :
          \/ \E n \in 1..MaxNodes : \E up \in [StrictUpper(n) -> 0..MaxVal] :
                /\ num_nodes = n
                /\ adj_array = MatrixOf(n, up, kind)
          \/ /\ num_nodes = 4
             /\ adj_array = MatrixOf(4, ExampleUpper, kind)
    /\ adj_in = adj_array
    /\ threshold \in Thresholds
    /\ sorted_indices = <<>>
    /\ thr_array = <<>>
    /\ G = {}

\* create_thresholded_graph(adj_array, threshold, num_nodes), lines 137-140,
\* with threshold_adj_array, lines 41-58, inlined
CreateThresholdedGraph ==
    /\ gpc = "call"
    /\ \E r \in ThresholdAdjArray(adj_array, threshold, num_nodes) :
          /\ sorted_indices' = r.sorted
          /\ adj_array' = r.caller
          /\ thr_array' = r.result
          /\ G' = from_numpy_array(r.result)
    /\ gpc' = "done"
    /\ UNCHANGED <<num_nodes, threshold, adj_in>>
    /\ UNCHANGED <<nvars, dvars, svars, bvars>>

NextGraph == CreateThresholdedGraph

SpecGraph == InitGraph /\ [][NextGraph]_vars

----------------------------------------------------------------------------
(* two graphs built from copies of one matrix, one threshold each *)

\* thresholds of the two builds: one per value of num_to_filter for 3 nodes
BothThresholds == {0, 34, 67, 100}

\* the matrix of both builds is a correlation-like one, as np.load gives it
BothKinds == {"symmetric"}

InitBoth ==
    /\ IdleGraph
    /\ IdleNorm
    /\ IdleData
    /\ IdleSample
    /\ bpc = "first"
    /\ \E kind \in BothKinds :
          \/ \E n \in 1..MaxNodes : \E up \in [StrictUpper(n) -> 0..MaxVal] :
                /\ b_nodes = n
                /\ b_array = MatrixOf(n, up, kind)
          \/ /\ b_nodes = 4
             /\ b_array = MatrixOf(4, ExampleUpper, kind)
    /\ argsort_seen = {}
    /\ built = <<>>

\* create_thresholded_graph(b_array.copy(), t, b_nodes): the in-place writes go
\* to the copy, so b_array stays as it is
BuildOnCopy(t) ==
    \E r \in ThresholdAdjArraySeen(b_array, t, b_nodes, argsort_seen) :
        /\ built' = Append(built, [threshold |-> t, G |-> from_numpy_array(r.result)])
        /\ argsort_seen' = argsort_seen \cup {[vals |-> r.vals, order |-> r.order]}

BuildFirst ==
    /\ bpc = "first"
    /\ \E t \in BothThresholds : BuildOnCopy(t)
    /\ bpc' = "second"
    /\ UNCHANGED <<b_nodes, b_array>>
    /\ UNCHANGED <<gvars, nvars, dvars, svars>>

BuildSecond ==
    /\ bpc = "second"
    /\ \E t \in BothThresholds : BuildOnCopy(t)
    /\ bpc' = "done"
    /\ UNCHANGED <<b_nodes, b_array>>
    /\ UNCHANGED <<gvars, nvars, dvars, svars>>

NextBoth ==
    \/ BuildFirst
    \/ BuildSecond

SpecBoth == InitBoth /\ [][NextBoth]_vars

----------------------------------------------------------------------------
(* HCPDataset / UKBDataset: construction and process() *)

People == 1..MaxPeople

\* the scan directions of line 275, by index
Directions == <<"1_LR", "1_RL", "2_LR", "2_RL">>

\* the configuration every check of HCPDataset accepts, per normalisation and
\* encoding
HcpConfig(norm, enc) ==
    [source |-> "HCP", target_var |-> "gender", num_nodes |-> 68, threshold |-> 50,
     connectivity_type |-> "STRUCT", normalisation |-> norm,
     analysis_type |-> "ST_MULTIMODAL", time_length |-> 1200,
     encoding_strategy |-> enc]

\* the configuration every check of UKBDataset accepts (no encoding parameter)
UkbConfig ==
    [source |-> "UKB", target_var |-> "gender", num_nodes |-> 68, threshold |-> 50,
     connectivity_type |-> "FMRI", normalisation |-> NormNone,
     analysis_type |-> "ST_UNIMODAL", time_length |-> 490,
     encoding_strategy |-> "NONE"]

Encodings == {"NONE", "STATS"}

\* an accepted configuration with one argument changed to a value a check rejects
Variants(c) ==
    { [c EXCEPT !.target_var = "age"],
      [c EXCEPT !.connectivity_type = IF c.source = "HCP" THEN "FMRI" ELSE "STRUCT"],
      [c EXCEPT !.analysis_type =
           IF c.source = "HCP" THEN "ST_UNIMODAL" ELSE "ST_MULTIMODAL"],
      [c EXCEPT !.threshold = 0 - 1],
      [c EXCEPT !.threshold = 101],
      [c EXCEPT !.normalisation = "OTHER"],
      [c EXCEPT !.time_length = 2400],
      [c EXCEPT !.num_nodes = 50] }

Configs ==
    {HcpConfig(n, e) : n \in Normalisations, e \in Encodings}
        \cup Variants(HcpConfig(NormNone, "NONE"))
        \cup {UkbConfig} \cup Variants(UkbConfig)

\* what the raw files of one subject hold: all fine ("ok"), or one problem;
\* dir is the scan direction index the problem of a single scan is in
RawKinds == {"ok", "tracks_missing", "ts_missing", "ts_badlen", "ts_nan", "ts_inf",
             "ts_const", "label_missing", "feats_nan"}
ScanKinds == {"ts_missing", "ts_badlen"}
FaultDirs == {0, 2}
RawInputs ==
    {[kind |-> k, dir |-> 0] : k \in RawKinds \ ScanKinds}
        \cup {[kind |-> k, dir |-> d] : k \in ScanKinds, d \in FaultDirs}

Unread == [kind |-> "unread", dir |-> 0]

RECURSIVE SortedSeq(_)
\* sorted(list(S))
SortedSeq(S) ==
    IF S = {} THEN <<>>
    ELSE LET m == CHOOSE x \in S : \A y \in S : x <= y
         IN <<m>> \o SortedSeq(S \ {m})

\* (variant that iterates every subject with time series)
TimeSeriesPeople(ts_people, track_people) == SortedSeq(ts_people)
\* line 245: sorted(list(set(DESIKAN_COMPLETE_TS).intersection(set(DESIKAN_TRACKS))))
FilteredPeople(ts_people, track_people) == SortedSeq(ts_people \cap track_people)

\* the kinds of value ("fin", "nan", "inf") a block read by np.genfromtxt holds
ValueKinds(kind) ==
    IF kind = "ts_nan" THEN {"fin", "nan"}
    ELSE IF kind = "ts_inf" THEN {"fin", "inf"}
    ELSE {"fin"}

\* the outcome of a step on value kinds: the kinds returned, or an exception
Returned(kinds) == [raised |-> "none", kinds |-> kinds]
Raised(name) == [raised |-> name, kinds |-> {}]

\* normalise_timeseries on value kinds: RobustScaler passes NaN through and
\* raises ValueError on an infinite entry; NONE only transposes
NormaliseKinds(kinds, mode) ==
    IF mode \in {NormRoi, NormSubject} /\ "inf" \in kinds
    THEN Raised("ValueError")
    ELSE Returned(kinds)

\* calculate_stats_features on value kinds: a finite varying series gives finite
\* descriptors, a constant one gives NaN for the undefined ones; on a series
\* with NaN or Inf the descriptor libraries either raise or return them
StatsKinds(kinds, kind) ==
    IF kinds # {"fin"} THEN {Raised("ValueError"), Returned(kinds \cup {"nan"})}
    ELSE IF kind = "ts_const" THEN {Returned({"fin", "nan"})}
    ELSE {Returned({"fin"})}

\* line 215: timeseries[np.isnan(timeseries)] = 0
NanToZero(kinds) == IF "nan" \in kinds THEN (kinds \ {"nan"}) \cup {"fin"} ELSE kinds

\* lines 221-224: the static covariates of nodefeats_df, concatenated
WithCovariates(kinds, kind) == IF kind = "feats_nan" THEN kinds \cup {"nan"} ELSE kinds

Raise(name, line) ==
    /\ pc' = "aborted"
    /\ error' = [name |-> name, line |-> line]

Exit(code) ==
    /\ pc' = "exit"
    /\ exit_code' = code

Init ==
    /\ IdleGraph
    /\ IdleNorm
    /\ IdleSample
    /\ IdleBoth
    /\ pc = "init"
    /\ cfg \in Configs
    /\ DESIKAN_COMPLETE_TS \in SUBSET People
    /\ DESIKAN_TRACKS \in SUBSET People
    /\ raw = [p \in People |-> Unread]
    /\ filtered_people = <<>>
    /\ person_idx = 0
    /\ ind = 0
    /\ edge_index = 0
    /\ data_list = <<>>
    /\ saved = <<>>
    /\ error = NoError
    /\ exit_code = 0

\* (variant without the range check of the threshold)
BrainChecksNoThreshold ==
    cfg.normalisation \in {NormNone, NormRoi, NormSubject}
\* BrainDataset.__init__, lines 148-153: the checks before super().__init__
BrainChecksPass ==
    /\ ~(cfg.threshold < 0 \/ cfg.threshold > 100)
    /\ cfg.normalisation \in {NormNone, NormRoi, NormSubject}

\* HCPDataset.__init__, lines 181-199, and BrainDataset.__init__, lines 148-164;
\* super().__init__ of line 164 runs process()
ConstructHCP ==
    /\ pc = "init"
    /\ cfg.source = "HCP"
    /\ IF \/ cfg.target_var \notin {"gender"}
          \/ cfg.connectivity_type \notin {"STRUCT"}
          \/ cfg.analysis_type \notin {"ST_MULTIMODAL"}
          \/ ~BrainChecksPass
       THEN Exit(0 - 2) /\ UNCHANGED error
       ELSE pc' = "process" /\ UNCHANGED <<error, exit_code>>
    /\ UNCHANGED <<cfg, DESIKAN_COMPLETE_TS, DESIKAN_TRACKS, raw, filtered_people,
                   person_idx, ind, edge_index, data_list, saved>>
    /\ UNCHANGED <<gvars, nvars, svars, bvars>>

\* UKBDataset.__init__, lines 296-309: the call of line 306 passes no
\* encoding_strategy, which BrainDataset.__init__ requires
ConstructUKB ==
    /\ pc = "init"
    /\ cfg.source = "UKB"
    /\ IF \/ cfg.target_var \notin {"gender"}
          \/ cfg.connectivity_type \notin {"FMRI"}
          \/ cfg.analysis_type \notin {"ST_UNIMODAL"}
       THEN Exit(0 - 2) /\ UNCHANGED error
       ELSE Raise("TypeError", 306) /\ UNCHANGED exit_code
    /\ UNCHANGED <<cfg, DESIKAN_COMPLETE_TS, DESIKAN_TRACKS, raw, filtered_people,
                   person_idx, ind, edge_index, data_list, saved>>
    /\ UNCHANGED <<gvars, nvars, svars, bvars>>

\* HCPDataset.process, lines 234-245
ProcessBegin ==
    /\ pc = "process"
    /\ IF cfg.time_length # 1200
       THEN Raise("AssertionError", 237) /\ UNCHANGED <<exit_code, filtered_people, person_idx>>
       ELSE IF cfg.num_nodes = 50
       THEN Exit(0 - 1) /\ UNCHANGED <<error, filtered_people, person_idx>>
       ELSE /\ filtered_people' = FilteredPeople(DESIKAN_COMPLETE_TS, DESIKAN_TRACKS)
            /\ person_idx' = 1
            /\ pc' = "loop"
            /\ UNCHANGED <<error, exit_code>>
    /\ UNCHANGED <<cfg, DESIKAN_COMPLETE_TS, DESIKAN_TRACKS, raw, ind, edge_index,
                   data_list, saved>>
    /\ UNCHANGED <<gvars, nvars, svars, bvars>>

\* HCPDataset.process, lines 247 and 265-273: the next subject's tracks are
\* read and its graph is built
ReadTracks ==
    /\ pc = "loop"
    /\ person_idx <= Len(filtered_people)
    /\ LET person == filtered_people[person_idx]
       IN \E r \in RawInputs :
            /\ raw' = [raw EXCEPT ![person] = r]
            /\ IF r.kind = "tracks_missing"
               THEN Raise("OSError", 268) /\ UNCHANGED <<edge_index, ind>>
               ELSE /\ edge_index' = person
                    /\ ind' = 0
                    /\ pc' = "scan"
                    /\ UNCHANGED error
    /\ UNCHANGED <<cfg, DESIKAN_COMPLETE_TS, DESIKAN_TRACKS, filtered_people, person_idx,
                   data_list, saved, exit_code>>
    /\ UNCHANGED <<gvars, nvars, svars, bvars>>

NoSample == [x |-> {}, edge_index |-> 0, hcp_id |-> 0, index |-> 0]

\* HCPDataset.__create_data_object, lines 206-232, on the value kinds of ts:
\* the set of outcomes, each an exception or a sample
CreateDataObject(person, kinds, i, edges) ==
    LET r == raw[person]
        normalised == NormaliseKinds(kinds, cfg.normalisation)
        encoded ==
            IF normalised.raised # "none" THEN {[err |-> [name |-> normalised.raised, line |-> 209], kinds |-> {}]}
            ELSE IF cfg.encoding_strategy = "STATS"
            THEN {IF st.raised # "none"
                  THEN [err |-> [name |-> st.raised, line |-> 213], kinds |-> {}]
                  ELSE [err |-> NoError, kinds |-> NanToZero(st.kinds)] :
                     st \in StatsKinds(normalised.kinds, r.kind)}
            ELSE {[err |-> NoError, kinds |-> normalised.kinds]}
    IN { IF e.err # NoError
         THEN [err |-> e.err, sample |-> NoSample]
         ELSE IF r.kind = "label_missing"
         THEN [err |-> [name |-> "KeyError", line |-> 227], sample |-> NoSample]
         ELSE [err |-> NoError,
               sample |-> [x |-> WithCovariates(e.kinds, r.kind), edge_index |-> edges,
                           hcp_id |-> person, index |-> i]] : e \in encoded }

\* HCPDataset.process, lines 275-285: one scan direction of the current subject
Scan ==
    /\ pc = "scan"
    /\ LET person == filtered_people[person_idx]
           r == raw[person]
       IN IF r.kind = "ts_missing" /\ r.dir = ind
          THEN Raise("OSError", 276) /\ UNCHANGED <<data_list, ind, person_idx>>
          ELSE IF r.kind = "ts_badlen" /\ r.dir = ind
          THEN Raise("AssertionError", 280) /\ UNCHANGED <<data_list, ind, person_idx>>
          ELSE \E o \in CreateDataObject(person, ValueKinds(r.kind), ind, edge_index) :
                 IF o.err # NoError
                 THEN Raise(o.err.name, o.err.line) /\ UNCHANGED <<data_list, ind, person_idx>>
                 ELSE /\ data_list' = Append(data_list, o.sample)
                      /\ UNCHANGED error
                      /\ IF ind + 1 < Len(Directions)
                         THEN ind' = ind + 1 /\ UNCHANGED <<pc, person_idx>>
                         ELSE /\ pc' = "loop"
                              /\ person_idx' = person_idx + 1
                              /\ UNCHANGED ind
    /\ UNCHANGED <<cfg, DESIKAN_COMPLETE_TS, DESIKAN_TRACKS, raw, filtered_people,
                   edge_index, saved, exit_code>>
    /\ UNCHANGED <<gvars, nvars, svars, bvars>>

\* HCPDataset.process, lines 287-288, and the load of line 200
CollateAndSave ==
    /\ pc = "loop"
    /\ person_idx > Len(filtered_people)
    /\ saved' = <<data_list>>
    /\ pc' = "done"
    /\ UNCHANGED <<cfg, DESIKAN_COMPLETE_TS, DESIKAN_TRACKS, raw, filtered_people,
                   person_idx, ind, edge_index, data_list, error, exit_code>>
    /\ UNCHANGED <<gvars, nvars, svars, bvars>>

Next ==
    \/ ConstructHCP
    \/ ConstructUKB
    \/ ProcessBegin
    \/ ReadTracks
    \/ Scan
    \/ CollateAndSave

Spec == Init /\ [][Next]_vars

----------------------------------------------------------------------------
(* random_downsample *)

\* the labels a sample may carry: the two classes and one other value
Labels == {0, 1, 2}

\* list(filter(lambda x: x.y == v, list))
FilterLabel(list, v) == SelectSeq(list, LAMBDA x : x.y = v)

\* line 67
SmallestValue(positive_num, negative_num) == IF positive_num < negative_num THEN 1 ELSE 0

\* (variant that names the minority label again)
HighestValueSame(positive_num, negative_num) == IF positive_num < negative_num THEN 1 ELSE 0
\* line 68
HighestValue(positive_num, negative_num) == IF positive_num < negative_num THEN 0 ELSE 1

\* rng.choice(a, size=size, replace=False): size distinct numbers of 0..a-1
RngChoice(a, size) == {S \in SUBSET Idx(a) : Cardinality(S) = size}

\* (variant with a generator that is not reseeded by the call)
UnseededChoice(memo, a, size) == RngChoice(a, size)
\* lines 74-75: a generator seeded with 0 is made by every call, so its first
\* choice is a function of (a, size): whatever it returned before, it returns again
DefaultRngChoice(memo, a, size) ==
    IF \E m \in memo : m.a = a /\ m.size = size
    THEN {m.drawn : m \in {c \in memo : c.a = a /\ c.size = size}}
    ELSE RngChoice(a, size)

RECURSIVE KeepFrom(_, _, _)
\* [elem for id, elem in enumerate(y_0) if id in numbers_sample], from position i
KeepFrom(y_0, i, numbers_sample) ==
    IF i > Len(y_0) THEN <<>>
    ELSE (IF (i - 1) \in numbers_sample THEN <<y_0[i]>> ELSE <<>>)
             \o KeepFrom(y_0, i + 1, numbers_sample)

\* line 79
KeepSampled(y_0, numbers_sample) == KeepFrom(y_0, 1, numbers_sample)

\* (variant that puts the sampled majority first)
ExtendFront(list, more) == more \o list
\* line 80: list.extend(more)
Extend(list, more) == list \o more

\* random_downsample(data_list), lines 61-82: for every choice the generator
\* may make, numbers_sample and the list returned
RandomDownsample(list, memo) ==
    LET negative_num0 == Len(FilterLabel(list, 0))
        positive_num0 == Len(FilterLabel(list, 1))
        smallest_value == SmallestValue(positive_num0, negative_num0)
        highest_value == HighestValue(positive_num0, negative_num0)
        swap == positive_num0 > negative_num0
        negative_num == IF swap THEN positive_num0 ELSE negative_num0
        positive_num == IF swap THEN negative_num0 ELSE positive_num0
    IN { [a |-> negative_num,
          size |-> positive_num,
          numbers_sample |-> numbers_sample,
          out |-> Extend(FilterLabel(list, smallest_value),
                         KeepSampled(FilterLabel(list, highest_value),
                                     numbers_sample))] :
            numbers_sample \in DefaultRngChoice(memo, negative_num, positive_num) }

\* the lists of samples with the labels ys, identified by their position
SamplesOf(ys) == [i \in 1..Len(ys) |-> [id |-> i, y |-> ys[i]]]

InitSample ==
    /\ IdleGraph
    /\ IdleNorm
    /\ IdleData
    /\ IdleBoth
    /\ spc = "run"
    /\ \E n \in 0..MaxSamples : \E ys \in [1..n -> Labels] : samples = SamplesOf(ys)
    /\ seed0_choices = {}
    /\ calls = <<>>

\* one call random_downsample(samples); the list passed is not written
CallRandomDownsample ==
    /\ spc = "run"
    /\ Len(calls) < MaxCalls
    /\ \E r \in RandomDownsample(samples, seed0_choices) :
          /\ calls' = Append(calls, [numbers_sample |-> r.numbers_sample, out |-> r.out])
          /\ seed0_choices' = seed0_choices \cup
                                 {[a |-> r.a, size |-> r.size, drawn |-> r.numbers_sample]}
    /\ UNCHANGED <<spc, samples>>
    /\ UNCHANGED <<gvars, nvars, dvars, bvars>>

NextSample == CallRandomDownsample

SpecSample == InitSample /\ [][NextSample]_vars

----------------------------------------------------------------------------
(* Properties of the thresholded graph (checked under SpecGraph) *)

GraphDone == gpc = "done"

\* the edges of G between two distinct nodes
NonSelfEdges == {p \in G : p[1] # p[2]}

\* the strict-upper-triangle pairs whose value in the input matrix is nonzero
UpperNonZero == {p \in triu_indices(num_nodes) : adj_in[p] # 0}

\* the strict-upper-triangle pairs that are edges of G
KeptPairs == {p \in triu_indices(num_nodes) : p \in G}

Mirror(S) == {<<p[2], p[1]>> : p \in S}

Min(a, b) == IF a <= b THEN a ELSE b

\* floor(threshold/100 * n(n-1)/2), as the specification writes it
NumToKeep == (threshold * ((num_nodes * (num_nodes - 1)) \div 2)) \div 100

\* C1: the built graph has a symmetric edge relation and a self-loop on
\* every node 0..num_nodes-1.
C1_SymmetricWithSelfLoops ==
    GraphDone =>
        /\ \A i, j \in Idx(num_nodes) : (<<i, j>> \in G) <=> (<<j, i>> \in G)
        /\ \A i \in Idx(num_nodes) : <<i, i>> \in G

C1_Witness ==
    /\ GraphDone
    /\ num_nodes = 3
    /\ threshold = 50
    /\ KeptPairs # {}
    /\ KeptPairs # triu_indices(num_nodes)

\* C2 (as claimed): for n >= 2 and threshold in {0, 5, 20, 50, 100} the number
\* of non-self-loop edges is exactly 2 * floor(threshold/100 * n(n-1)/2),
\* whatever the matrix entries are.
C2_EdgeCountExact ==
    (GraphDone /\ num_nodes >= 2 /\ threshold \in {0, 5, 20, 50, 100}) =>
        Cardinality(NonSelfEdges) = 2 * NumToKeep

\* C2 (amended): for n >= 2 and threshold in {0, 5, 20, 50, 100} the number of
\* non-self-loop edges is twice the smaller of floor(threshold/100 * n(n-1)/2)
\* and the number of nonzero strict-upper entries of the input; the self-loops
\* add num_nodes edges.
C2_EdgeCountUpToNonZero ==
    (GraphDone /\ num_nodes >= 2 /\ threshold \in {0, 5, 20, 50, 100}) =>
        /\ Cardinality(NonSelfEdges) = 2 * Min(NumToKeep, Cardinality(UpperNonZero))
        /\ Cardinality(G) = Cardinality(NonSelfEdges) + num_nodes

C2_Witness ==
    /\ GraphDone
    /\ num_nodes = 3
    /\ threshold = 100
    /\ Cardinality(UpperNonZero) = 2
    /\ Cardinality(NonSelfEdges) = 4

\* C3 (as claimed): with threshold = 100 every pair of distinct nodes is
\* joined in both directions and every self-loop is present.
C3_CompleteAtHundred ==
    (GraphDone /\ threshold = 100) => G = Idx(num_nodes) \X Idx(num_nodes)

\* C3 (amended): with threshold = 100 the edges are the self-loops and both
\* directions of every pair whose strict-upper input value is nonzero; the
\* graph is complete when no strict-upper input value is zero.
C3_AllNonZeroAtHundred ==
    (GraphDone /\ threshold = 100) =>
        /\ G = diag_indices(num_nodes) \cup UpperNonZero \cup Mirror(UpperNonZero)
        /\ (UpperNonZero = triu_indices(num_nodes)
               => G = Idx(num_nodes) \X Idx(num_nodes))

C3_Witness ==
    /\ GraphDone
    /\ threshold = 100
    /\ num_nodes = 3
    /\ UpperNonZero = triu_indices(num_nodes)
    /\ G = Idx(num_nodes) \X Idx(num_nodes)

\* C4: with threshold = 0 the edge set is exactly the num_nodes self-loops.
C4_SelfLoopsOnlyAtZero ==
    (GraphDone /\ threshold = 0) => G = diag_indices(num_nodes)

C4_Witness ==
    /\ GraphDone
    /\ threshold = 0
    /\ num_nodes = 3
    /\ UpperNonZero = triu_indices(num_nodes)
    /\ G = diag_indices(num_nodes)

\* C5: the pairs kept are the strongest nonzero strict-upper entries of the
\* input, mirrored: they are nonzero upper entries, there are num_to_keep of
\* them (all of them when fewer are nonzero), none is weaker than a dropped
\* nonzero one, and nothing else but the self-loops is an edge, whatever the
\* lower triangle and the diagonal of the input hold. For the 4-node example
\* at threshold 50 the pairs kept are (2,3), (0,1), (0,2).
C5_StrongestKept ==
    GraphDone =>
        /\ KeptPairs \subseteq UpperNonZero
        /\ Cardinality(KeptPairs) = Min(NumToKeep, Cardinality(UpperNonZero))
        /\ \A k \in KeptPairs : \A d \in UpperNonZero \ KeptPairs :
              adj_in[k] >= adj_in[d]
        /\ G = diag_indices(num_nodes) \cup KeptPairs \cup Mirror(KeptPairs)
        /\ ( /\ num_nodes = 4
             /\ threshold = 50
             /\ \A p \in triu_indices(4) : adj_in[p] = ExampleUpper[p] )
           => G = diag_indices(4) \cup
                  {<<2, 3>>, <<3, 2>>, <<0, 1>>, <<1, 0>>, <<0, 2>>, <<2, 0>>}

C5_Witness ==
    /\ GraphDone
    /\ num_nodes = 4
    /\ threshold = 50
    /\ \A p \in triu_indices(4) : adj_in[p] = ExampleUpper[p]
    /\ adj_in[<<3, 0>>] # 0
    /\ KeptPairs = {<<2, 3>>, <<0, 1>>, <<0, 2>>}

\* C6 (as claimed): the call leaves the caller's matrix as it was.
C6_InputUnchanged ==
    GraphDone => adj_array = adj_in

----------------------------------------------------------------------------
(* Properties of the normaliser (checked under SpecNorm) *)

NormDone == npc = "done"

\* a / b <= c / d for fractions with positive denominators
FracLeq(x, y) == x[1] * y[2] <= y[1] * x[2]

\* C7: for every mode the block returned has shape (num_nodes, time_length)
\* and its entry [n][t] comes from entry [t][n] of the input: it is that
\* entry itself under NONE, and under the two scaling modes it is an
\* increasing function of it, the same one for all entries of a node (ROI) or
\* of the block (SUBJECT).
C7_NodeMajorOutput ==
    NormDone =>
        LET T == ts_in.shape[1]
            N == ts_in.shape[2]
        IN /\ T > N
           /\ ts_out.shape = <<N, T>>
           /\ DOMAIN ts_out.at = Idx(N) \X Idx(T)
           /\ normalisation = NormNone =>
                 \A n \in Idx(N), t \in Idx(T) :
                    ts_out.at[<<n, t>>] = <<ts_in.at[<<t, n>>], 1>>
           /\ normalisation = NormRoi =>
                 \A n \in Idx(N), t1, t2 \in Idx(T) :
                    (ts_in.at[<<t1, n>>] <= ts_in.at[<<t2, n>>])
                       <=> FracLeq(ts_out.at[<<n, t1>>], ts_out.at[<<n, t2>>])
           /\ normalisation = NormSubject =>
                 \A n1, n2 \in Idx(N), t1, t2 \in Idx(T) :
                    (ts_in.at[<<t1, n1>>] <= ts_in.at[<<t2, n2>>])
                       <=> FracLeq(ts_out.at[<<n1, t1>>], ts_out.at[<<n2, t2>>])

C7_Witness ==
    /\ NormDone
    /\ normalisation = NormSubject
    /\ ts_in.shape = <<3, 2>>
    /\ ts_in.at[<<0, 1>>] # ts_in.at[<<1, 0>>]
    /\ ts_in.at[<<2, 0>>] < ts_in.at[<<0, 0>>]
    /\ ts_out.shape = <<2, 3>>
    /\ ts_out.at[<<0, 2>>][1] < 0

----------------------------------------------------------------------------
(* Properties of the dataset build (checked under Spec) *)

\* the subjects that have a sample in a list of samples
SubjectsIn(list) == {list[i].hcp_id : i \in DOMAIN list}

\* the position of subject p in the iteration order, 0 if it is not iterated
PosOf(p) ==
    IF \E i \in DOMAIN filtered_people : filtered_people[i] = p
    THEN CHOOSE i \in DOMAIN filtered_people : filtered_people[i] = p
    ELSE 0

\* the loop of line 247 has moved past subject p
MovedPast(p) == PosOf(p) > 0 /\ PosOf(p) < person_idx

\* the problem in the raw files of subject p has been met by the run
ProblemMet(p) ==
    /\ PosOf(p) > 0
    /\ raw[p].kind \notin {"unread", "ok"}
    /\ \/ MovedPast(p)
       \/ /\ PosOf(p) = person_idx
          /\ \/ raw[p].kind \notin ScanKinds
             \/ ind > raw[p].dir
             \/ ind = raw[p].dir /\ pc = "aborted"

\* the subjects the loop moved past without a sample of theirs in data_list
SkippedSubjects == {p \in People : MovedPast(p) /\ p \notin SubjectsIn(data_list)}

\* C8 (as claimed): no sample the assembler emitted holds a NaN or an Inf in
\* its node features, for every encoding and normalisation.
C8_FeaturesFinite ==
    \A i \in DOMAIN data_list : data_list[i].x \cap {"nan", "inf"} = {}

\* C9 (as claimed): a subject whose series length does not match the
\* configured time length is skipped: the run goes on, none of its samples is
\* in the collection, and it is counted once among the skipped subjects.
C9_MismatchSkipped ==
    \A p \in People :
        (raw[p].kind = "ts_badlen" /\ ProblemMet(p)) =>
            /\ pc # "aborted"
            /\ p \notin SubjectsIn(data_list)
            /\ p \in SkippedSubjects

\* C10 (as claimed): a problem of one subject never aborts the run, and the
\* collection of a finished run holds the four samples of every other
\* eligible subject.
C10_SubjectProblemNeverAborts ==
    /\ \A p \in People : ProblemMet(p) => pc # "aborted"
    /\ pc = "done" =>
          \A p \in DESIKAN_COMPLETE_TS \cap DESIKAN_TRACKS :
              raw[p].kind = "ok" =>
                  Cardinality({i \in DOMAIN saved[1] : saved[1][i].hcp_id = p}) = 4

\* the configuration is one the claim calls invalid
InvalidConfig ==
    \/ cfg.threshold < 0
    \/ cfg.threshold > 100
    \/ cfg.normalisation \notin Normalisations
    \/ cfg.target_var # "gender"
    \/ cfg.connectivity_type # (IF cfg.source = "HCP" THEN "STRUCT" ELSE "FMRI")
    \/ cfg.analysis_type # (IF cfg.source = "HCP" THEN "ST_MULTIMODAL" ELSE "ST_UNIMODAL")

\* C11: with an invalid configuration the build stops with an error before
\* process() starts: no raw file of a subject is read, no graph is built, no
\* sample is assembled and nothing is saved; so the graph builder is never
\* invoked by a build with a threshold outside [0,100].
C11_InvalidConfigRejectedFirst ==
    /\ InvalidConfig =>
          /\ pc \in {"init", "exit", "aborted"}
          /\ pc = "exit" => exit_code = 0 - 2
          /\ pc = "aborted" => error.name = "TypeError"
          /\ \A p \in People : raw[p] = Unread
          /\ edge_index = 0
          /\ data_list = <<>>
          /\ saved = <<>>
    /\ edge_index # 0 => cfg.threshold \in 0..100

C11_Witness ==
    /\ pc = "exit"
    /\ exit_code = 0 - 2
    /\ cfg.source = "HCP"
    /\ cfg.threshold = 101
    /\ cfg.target_var = "gender"
    /\ DESIKAN_COMPLETE_TS \cap DESIKAN_TRACKS # {}

----------------------------------------------------------------------------
(* Properties of random_downsample (checked under SpecSample) *)

\* the number of samples of list that carry label v
CountLabel(list, v) == Cardinality({i \in DOMAIN list : list[i].y = v})

\* how often sample x occurs in list
Occurrences(list, x) == Cardinality({i \in DOMAIN list : list[i] = x})

\* the samples of the input, as a set
InputSamples == {samples[i] : i \in DOMAIN samples}

MinorityCount == Min(CountLabel(samples, 0), CountLabel(samples, 1))

BinaryLabels == \A i \in DOMAIN samples : samples[i].y \in {0, 1}

\* C12: two calls on the same list select the same set of majority indices,
\* and for a list with binary labels the list returned holds as many label-0
\* as label-1 samples, namely min(count of label 0, count of label 1), also
\* when the counts are equal or one class is empty.
C12_DeterministicBalanced ==
    /\ \A i, j \in DOMAIN calls : calls[i].numbers_sample = calls[j].numbers_sample
    /\ BinaryLabels =>
          \A c \in DOMAIN calls :
              /\ CountLabel(calls[c].out, 0) = MinorityCount
              /\ CountLabel(calls[c].out, 1) = MinorityCount
              /\ Len(calls[c].out) = 2 * MinorityCount

C12_Witness ==
    /\ Len(calls) = 2
    /\ BinaryLabels
    /\ CountLabel(samples, 0) = 3
    /\ CountLabel(samples, 1) = 2
    /\ calls[1].numbers_sample = {0, 2}
    /\ calls[2].numbers_sample = {0, 2}

\* C13: every input sample with the minority label is in the list returned
\* exactly once, and the majority-label samples returned are pairwise distinct
\* samples of the input, whichever label is the majority.
C13_MinorityKeptMajoritySubsampled ==
    \A c \in DOMAIN calls :
        LET out == calls[c].out
        IN /\ \A v \in {0, 1} :
                CountLabel(samples, v) <= CountLabel(samples, 1 - v) =>
                    \A i \in DOMAIN samples :
                        samples[i].y = v => Occurrences(out, samples[i]) = 1
           /\ \A k \in DOMAIN out :
                /\ out[k] \in InputSamples
                /\ Occurrences(out, out[k]) = 1

C13_Witness ==
    /\ Len(calls) >= 1
    /\ CountLabel(samples, 1) = 3
    /\ CountLabel(samples, 0) = 1
    /\ Len(calls[1].out) = 2
    /\ calls[1].out[1].y = 0
    /\ calls[1].out[2].y = 1

\* list holds samples of label v only, in the order of their input positions
InInputOrder(list, v) ==
    /\ \A k \in DOMAIN list : list[k].y = v /\ list[k] \in InputSamples
    /\ \A k, l \in DOMAIN list : k < l => list[k].id < list[l].id

\* C16: the list returned holds no sample with a label other than 0 and 1, its
\* length is 2 * min(count of label 0, count of label 1), and it lists all
\* samples of the minority label first and the kept majority samples after
\* them, each group in its input order.
C16_BinaryOnlyMinorityFirst ==
    \A c \in DOMAIN calls :
        LET out == calls[c].out
        IN /\ \A k \in DOMAIN out : out[k].y \in {0, 1}
           /\ Len(out) = 2 * MinorityCount
           /\ \E v \in {0, 1} :
                /\ CountLabel(samples, v) = MinorityCount
                /\ SubSeq(out, 1, MinorityCount) = FilterLabel(samples, v)
                /\ InInputOrder(SubSeq(out, MinorityCount + 1, Len(out)), 1 - v)

C16_Witness ==
    /\ Len(calls) >= 1
    /\ \E i \in DOMAIN samples : samples[i].y = 2
    /\ CountLabel(samples, 0) = 2
    /\ CountLabel(samples, 1) = 1
    /\ samples[1].y = 0
    /\ Len(calls[1].out) = 2
    /\ calls[1].out[1].y = 1
    /\ calls[1].out[2].y = 0

----------------------------------------------------------------------------
(* Properties of the collection a build saves (checked under Spec) *)

\* the subjects that have both time series and structural tracks
Eligible == DESIKAN_COMPLETE_TS \cap DESIKAN_TRACKS

\* every subject the build iterated had well-formed raw inputs
AllWellFormed == \A p \in Eligible : raw[p].kind = "ok"

\* C14: a build on well-formed inputs saves, for each subject that has both
\* time series and tracks, in ascending subject order, four consecutive samples
\* with index 0, 1, 2, 3; no other subject contributes, and the samples of
\* different subjects are not interleaved.
C14_FourSamplesPerSubjectInOrder ==
    (pc = "done" /\ AllWellFormed) =>
        LET coll == saved[1]
        IN /\ Len(coll) = Len(Directions) * Cardinality(Eligible)
           /\ \A k \in DOMAIN coll :
                /\ coll[k].index = (k - 1) % Len(Directions)
                /\ coll[k].hcp_id \in Eligible
                /\ Cardinality({q \in Eligible : q < coll[k].hcp_id})
                       = (k - 1) \div Len(Directions)

C14_Witness ==
    /\ pc = "done"
    /\ AllWellFormed
    /\ DESIKAN_COMPLETE_TS = {1, 2, 3}
    /\ DESIKAN_TRACKS = {1, 3}
    /\ Len(saved[1]) = 8
    /\ saved[1][4].hcp_id = 1
    /\ saved[1][5].hcp_id = 3
    /\ saved[1][5].index = 0

----------------------------------------------------------------------------
(* Properties of two builds from one matrix (checked under SpecBoth) *)

BothDone == bpc = "done"

\* C15: of two graphs built from equal copies of one matrix, the one built with
\* the lower (or equal) threshold has a subset of the edges of the other, also
\* when entries tie in strength at the cutoff.
C15_MonotoneInThreshold ==
    BothDone =>
        \A i, j \in DOMAIN built :
            built[i].threshold <= built[j].threshold => built[i].G \subseteq built[j].G

\* three entries tie, the lower threshold keeps one of them and the higher two
C15_Witness ==
    /\ BothDone
    /\ b_nodes = 3
    /\ \A p \in StrictUpper(3) : b_array[p] = 2
    /\ built[1].threshold = 67
    /\ built[2].threshold = 34
    /\ Cardinality(built[1].G) = 3 + 4
    /\ Cardinality(built[2].G) = 3 + 2
    /\ built[2].G \subseteq built[1].G

====
